---- MODULE Spec2Model ----
(***************************************************************************)
(* Model of the rego access layer: the Backupify pagination driver         *)
(* (UserClient.GetAllUsers), its unit converter (convertUserBytes), the    *)
(* response cache and the rate limiter the clients are built with.         *)
(***************************************************************************)
EXTENDS Integers, Sequences, FiniteSets, TLC

VARIABLES
    pc,          \* position of the GetAllUsers caller
    start,       \* userPayload.Start
    length,      \* userPayload.Length
    allUsers,    \* the aggregate: [recordsTotal, data]
    total,       \* recordsTotal the provider reports during the current run
    dataset,     \* which record set the provider serves
    reqLog,      \* page requests of the current call, first MaxLog of them
    reqParity,   \* parity of the number of page requests of the current call
    cache,       \* ResponseCache entry of the customerServices url
    now,         \* wall clock, in hours
    calls,       \* GetAllUsers calls started so far
    calledAt,    \* hour at which the latest GetAllUsers call started
    ret,         \* what the last finished GetAllUsers call returned
    stored,      \* what the call that last wrote the cache returned
    failed,      \* a page call of the current run returned an error
    setsInRun,   \* cache sets performed by the current run
    megabyte,    \* package-level variable of package backupify
    gigabyte,    \* package-level variable of package backupify
    terabyte,    \* package-level variable of package backupify
    cpc,         \* position of the convertUserBytes caller
    users,       \* users.Data of the convertUserBytes call
    useBinary,   \* the useBinary argument of the running call
    kilobyte,    \* the local kilobyte of the running call
    task,        \* state of the goroutine of each record
    wg,          \* counter of the sync.WaitGroup
    printed,     \* lines the goroutines of the running call printed
    convCalls,   \* convertUserBytes calls started so far
    remaining,   \* tokens the rate limiter has left
    caller,      \* state of each caller of acquire()
    grants,      \* acquires granted while no refill or release occurred
    undisturbed, \* no refill, release or provider signal occurred yet
    cacheHist,   \* the last set and the last get of the response cache
    provider,    \* how the provider fills and counts its pages
    twin,        \* the same run against a provider that reports the same
                 \* totals and serves exactly the requested window
    received,    \* records of the page responses the current run received
    peer,        \* a second convertUserBytes call running at the same time
    google       \* the google client: constructor input and result

pagVars == <<pc, start, length, allUsers, total, dataset, reqLog, reqParity,
             cache, now, calls, calledAt, ret, stored, failed, setsInRun>>
pkgVars == <<megabyte, gigabyte, terabyte>>
convVars == <<cpc, users, useBinary, kilobyte, task, wg, printed, convCalls>>
rlVars == <<remaining, caller, grants, undisturbed>>
extVars == <<cacheHist, provider, twin, received, peer, google>>
vars == <<pagVars, pkgVars, convVars, rlVars, extVars>>

----------------------------------------------------------------------------
(* Bounds of the model *)

MaxLog == 8          \* page requests of one call that are recorded
MaxBelow == 160      \* how far below zero an offset is followed
MaxCalls == 2        \* GetAllUsers calls per behaviour
MaxTime == 4         \* hours the clock runs
MaxBatch == 2        \* records of one convertUserBytes call
MaxConvCalls == 2    \* convertUserBytes calls per behaviour
MaxTtl == 3          \* longest time-to-live, in hours, handed to the cache
MaxRequests == 2     \* requests sent through the google client
Capacity == 5        \* tokens of the rate limiter

\* totals the provider may report: below, at and above one and two pages
Totals == {0, 30, 75, 100, 149, 150, 180, 225}

----------------------------------------------------------------------------
(* float64 values of the form m * 2^e2 * 5^e5, kept exact *)

RECURSIVE Strip(_, _)
\* number of times d divides n (n > 0)
Strip(n, d) == IF n % d = 0 THEN 1 + Strip(n \div d, d) ELSE 0

RECURSIVE Pow(_, _)
Pow(b, k) == IF k = 0 THEN 1 ELSE b * Pow(b, k - 1)

Flt(m, e2, e5) ==
    IF m = 0 THEN [m |-> 0, e2 |-> 0, e5 |-> 0]
    ELSE LET a == Strip(m, 2)
             r == m \div Pow(2, a)
             b == Strip(r, 5)
         IN  [m |-> r \div Pow(5, b), e2 |-> e2 + a, e5 |-> e5 + b]

FloatZero == Flt(0, 0, 0)
FromInt(n) == Flt(n, 0, 0)
Mul(x, y) == Flt(x.m * y.m, x.e2 + y.e2, x.e5 + y.e5)

----------------------------------------------------------------------------
(* strings as sequences of characters *)

Digits == {"0", "1", "2", "3", "4", "5", "6", "7", "8", "9"}
DigitVal(ch) ==
    CASE ch = "0" -> 0 [] ch = "1" -> 1 [] ch = "2" -> 2 [] ch = "3" -> 3
      [] ch = "4" -> 4 [] ch = "5" -> 5 [] ch = "6" -> 6 [] ch = "7" -> 7
      [] ch = "8" -> 8 [] ch = "9" -> 9

\* strings.Index(s, sub): first position (0-based) of sub in s, or -1
Index(s, sub) ==
    LET hits == {i \in 1..(Len(s) - Len(sub) + 1) :
                    SubSeq(s, i, i + Len(sub) - 1) = sub}
    IN  IF hits = {} THEN -1
        ELSE (CHOOSE i \in hits : \A j \in hits : i <= j) - 1

\* strings.Contains(s, sub)
Contains(s, sub) == Index(s, sub) >= 0

RECURSIVE DigitsValue(_)
DigitsValue(ds) ==
    IF ds = <<>> THEN 0
    ELSE 10 * DigitsValue(SubSeq(ds, 1, Len(ds) - 1)) + DigitVal(ds[Len(ds)])

\* strconv.ParseFloat(s, 64) on decimal literals without sign or exponent:
\* digits with at most one point and at least one digit; anything else is
\* a syntax error
ParseFloat(s) ==
    LET dots == {i \in 1..Len(s) : s[i] = "."}
        digs == {i \in 1..Len(s) : s[i] \in Digits}
        wellFormed == /\ dots \cup digs = 1..Len(s)
                      /\ Cardinality(dots) <= 1
                      /\ digs # {}
        ds == SelectSeq(s, LAMBDA ch : ch \in Digits)
        frac == IF dots = {} THEN 0
                ELSE Len(s) - (CHOOSE i \in dots : TRUE)
    IN  IF wellFormed
        THEN [err |-> FALSE, val |-> Flt(DigitsValue(ds), 0 - frac, 0 - frac)]
        ELSE [err |-> TRUE, val |-> FloatZero]

----------------------------------------------------------------------------
(* the unit converter: convertUserBytes *)

SP == <<" ">>
U_bytes == <<"b", "y", "t", "e", "s">>
U_KB == <<"K", "B">>
U_MB == <<"M", "B">>
U_GB == <<"G", "B">>
U_TB == <<"T", "B">>

\* kilobyte, the local of convertUserBytes
Kilobyte(binary) == IF binary THEN FromInt(1024) ELSE FromInt(1000)

Megabyte_Stale(kb) == kb
\* megabyte = kilobyte * kilobyte
Megabyte(kb) == Mul(kb, kb)

\* gigabyte = megabyte * kilobyte
Gigabyte(mb, kb) == Mul(mb, kb)

\* terabyte = gigabyte * kilobyte
Terabyte(gb, kb) == Mul(gb, kb)

\* body of the goroutine started for one record: what it does to the
\* record's UsedBytesFloat given the multipliers it reads
\*   outcome "panic"     the slice expression s[:-1] panics
\*   outcome "error"     ParseFloat failed, the error is printed
\*   outcome "converted" the "Converted ..." line is printed
\* assigned tells whether a case of the switch wrote UsedBytesFloat
ConvertTask(s, kb, mb, gb, tb) ==
    LET idx == Index(s, SP)
        p == ParseFloat(SubSeq(s, 1, idx))
    IN  IF idx < 0
        THEN [outcome |-> "panic", assigned |-> FALSE, val |-> FloatZero]
        ELSE IF p.err
        THEN [outcome |-> "error", assigned |-> FALSE, val |-> FloatZero]
        ELSE IF Contains(s, U_bytes)
        THEN [outcome |-> "converted", assigned |-> TRUE, val |-> p.val]
        ELSE IF Contains(s, U_KB)
        THEN [outcome |-> "converted", assigned |-> TRUE, val |-> Mul(p.val, kb)]
        ELSE IF Contains(s, U_MB)
        THEN [outcome |-> "converted", assigned |-> TRUE, val |-> Mul(p.val, mb)]
        ELSE IF Contains(s, U_GB)
        THEN [outcome |-> "converted", assigned |-> TRUE, val |-> Mul(p.val, gb)]
        ELSE IF Contains(s, U_TB)
        THEN [outcome |-> "converted", assigned |-> TRUE, val |-> Mul(p.val, tb)]
        ELSE [outcome |-> "converted", assigned |-> FALSE, val |-> FloatZero]

----------------------------------------------------------------------------
(* the provider behind do[Users] *)

S_512bytes == <<"5", "1", "2">> \o SP \o U_bytes
S_2KB == <<"2">> \o SP \o U_KB
S_1MB == <<"1">> \o SP \o U_MB
S_1p5GB == <<"1", ".", "5">> \o SP \o U_GB
S_NA == <<"N", "/", "A">>
S_xKB == <<"x">> \o SP \o U_KB

\* "dirty" has one record without a space and one without a number
Datasets == {"clean", "dirty"}

\* the usedBytes string of the record at offset id
UsedBytesOf(ds, id) ==
    IF ds = "dirty" /\ id = 170 THEN S_NA
    ELSE IF ds = "dirty" /\ id = 3 THEN S_xKB
    ELSE CASE id % 4 = 0 -> S_512bytes
           [] id % 4 = 1 -> S_2KB
           [] id % 4 = 2 -> S_1MB
           [] id % 4 = 3 -> S_1p5GB

Max(a, b) == IF a >= b THEN a ELSE b
Min(a, b) == IF a <= b THEN a ELSE b

NewUser(id) == [id |-> id, usedBytesFloat |-> FloatZero]

\* the page response: recordsTotal and the records at offsets
\* [st, st + len) clipped to [0, tot)
Respond(tot, st, len) ==
    LET lo == Max(st, 0)
        hi == Min(st + len, tot)
    IN  [recordsTotal |-> tot,
         data |-> IF hi > lo THEN [i \in 1..(hi - lo) |-> NewUser(lo + i - 1)]
                  ELSE <<>>]

\* kinds of provider: "exact" serves the requested window; "capped" serves
\* at most 50 records of it; "clamping" answers an offset at or past the
\* end with its last page; "growing" serves the window while records are
\* added: from its second response on it reports 30 records more
Providers == {"exact", "capped", "clamping", "growing"}

\* the page response of a provider of kind p
RespondAs(p, tot, st, len) ==
    IF p = "capped" THEN Respond(tot, st, Min(len, 50))
    ELSE IF p = "clamping" /\ st >= tot THEN Respond(tot, Max(tot - len, 0), len)
    ELSE Respond(tot, st, len)

\* the total the next response reports, n responses having been sent
Reported(p, tot, n) == IF p = "growing" /\ n = 1 THEN tot + 30 ELSE tot

----------------------------------------------------------------------------
(* ResponseCache: GetCache / SetCache of the client *)

NoEntry == [present |-> FALSE, value |-> <<>>, expiresAt |-> 0]

GetCache_Inclusive(c, t) == c.present /\ t <= c.expiresAt
\* get(key): the entry is found while its time-to-live has not elapsed
GetCache(c, t) == c.present /\ t < c.expiresAt

SetCache(value, ttl, t) == [present |-> TRUE, value |-> value, expiresAt |-> t + ttl]

----------------------------------------------------------------------------
(* states of the parts a specification leaves alone *)

ConvIdle ==
    /\ cpc = "idle"
    /\ users = <<>>
    /\ useBinary = FALSE
    /\ kilobyte = FloatZero
    /\ task = <<>>
    /\ wg = 0
    /\ printed = {}
    /\ convCalls = 0

PagIdleInit ==
    /\ pc = "idle"
    /\ start = 0
    /\ length = 0
    /\ allUsers = [recordsTotal |-> 0, data |-> <<>>]
    /\ total = 0
    /\ dataset = "clean"
    /\ reqLog = <<>>
    /\ reqParity = 0
    /\ cache = NoEntry
    /\ now = 0
    /\ calls = 0
    /\ calledAt = 0
    /\ ret = [kind |-> "none", hit |-> FALSE, requests |-> 0,
              value |-> [recordsTotal |-> 0, data |-> <<>>]]
    /\ stored = [kind |-> "none", call |-> 0, at |-> 0,
                 value |-> [recordsTotal |-> 0, data |-> <<>>]]
    /\ failed = FALSE
    /\ setsInRun = 0

\* concurrent callers of acquire(): one more than there are tokens
NumCallers == Capacity + 1

PkgIdle ==
    /\ megabyte = [m |-> 0, e2 |-> 0, e5 |-> 0]
    /\ gigabyte = [m |-> 0, e2 |-> 0, e5 |-> 0]
    /\ terabyte = [m |-> 0, e2 |-> 0, e5 |-> 0]

NoHist == [got |-> FALSE, found |-> FALSE, getAt |-> 0, gPresent |-> FALSE,
           gSetAt |-> 0, gTtl |-> 0, setAt |-> 0, ttl |-> 0]
NoTwin == [pc |-> "idle", start |-> 0, length |-> 0]
NoReceived == [all |-> <<>>, last |-> <<>>]
NoPeer == [pc |-> "idle", useBinary |-> FALSE,
           kilobyte |-> [m |-> 0, e2 |-> 0, e5 |-> 0]]
NoGoogle == [pc |-> "idle"]

CacheIdle == cacheHist = NoHist
ProviderIdle == provider = "exact" /\ twin = NoTwin /\ received = NoReceived
PeerIdle == peer = NoPeer
GoogleIdle == google = NoGoogle

RLIdle ==
    /\ remaining = Capacity
    /\ caller = [c \in 1..NumCallers |-> "idle"]
    /\ grants = 0
    /\ undisturbed = TRUE

----------------------------------------------------------------------------
(* the pagination driver: UserClient.GetAllUsers *)

PageSize == 75
TTLHours == 3

EmptyUsers == [recordsTotal |-> 0, data |-> <<>>]
NoReturn == [kind |-> "none", hit |-> FALSE, requests |-> 0, value |-> EmptyUsers]
NoStore == [kind |-> "none", call |-> 0, at |-> 0, value |-> EmptyUsers]

GetAllUsersHit_Ignored(found) == FALSE
\* if c.GetCache(url, &cache) { return &cache, nil }
GetAllUsersHit(found) == found

ErrorOutcome_Break == "convert"
\* if err != nil { c.Log.Fatal(err) }: the logger prints and ends the process
ErrorOutcome == "exit"

\* the length the next request carries
ShrinkLength(len, recordsTotal) ==
    LET remainingUsers == recordsTotal - len
    IN  IF remainingUsers < len THEN remainingUsers ELSE len

\* whether the loop goes on after a response
Continues(st, recordsTotal) == st <= recordsTotal

Stops_ShortPage(resp, st) == ~Continues(st, resp.recordsTotal) \/ Len(resp.data) < PageSize
\* the else branch of the loop: the response ends the run
Stops(resp, st) == ~Continues(st, resp.recordsTotal)

Aggregate_Prepend(data, page) == page \o data
\* allUsers.Data = append(allUsers.Data, users.Data...)
Aggregate(data, page) == data \o page

\* the window and the position of the run after one response
LoopStep(st, len, resp) ==
    LET len1 == ShrinkLength(len, resp.recordsTotal)
    IN  IF Stops(resp, st)
        THEN [pc |-> "convert", start |-> st, length |-> len1]
        ELSE [pc |-> IF st + len1 < 0 - MaxBelow THEN "outside" ELSE "loop",
              start |-> st + len1, length |-> len1]

Logged(log, req) == IF Len(log) < MaxLog THEN Append(log, req) ELSE log

\* derived values of the aggregate after convertUserBytes(&allUsers, false)
ConvertAll(data, ds, kb, mb, gb, tb) ==
    [i \in 1..Len(data) |->
        LET r == ConvertTask(UsedBytesOf(ds, data[i].id), kb, mb, gb, tb)
        IN  IF r.assigned THEN [data[i] EXCEPT !.usedBytesFloat = r.val]
            ELSE data[i]]

Panics(data, ds) ==
    \E i \in 1..Len(data) : Index(UsedBytesOf(ds, data[i].id), SP) < 0

PagInit ==
    /\ pc = "idle"
    /\ start = 0
    /\ length = PageSize
    /\ allUsers = EmptyUsers
    /\ total = 0
    /\ dataset \in Datasets
    /\ reqLog = <<>>
    /\ reqParity = 0
    /\ cache = NoEntry
    /\ now = 0
    /\ calls = 0
    /\ calledAt = 0
    /\ ret = NoReturn
    /\ stored = NoStore
    /\ failed = FALSE
    /\ setsInRun = 0
    /\ megabyte = FloatZero
    /\ gigabyte = FloatZero
    /\ terabyte = FloatZero

Init == PagInit /\ ConvIdle /\ RLIdle /\ CacheIdle /\ ProviderIdle /\ PeerIdle /\ GoogleIdle

\* GetAllUsers finds the aggregate in the cache and returns it
CallHit ==
    /\ pc = "idle"
    /\ calls < MaxCalls
    /\ GetAllUsersHit(GetCache(cache, now))
    /\ calls' = calls + 1
    /\ calledAt' = now
    /\ reqLog' = <<>>
    /\ reqParity' = 0
    /\ failed' = FALSE
    /\ setsInRun' = 0
    /\ ret' = [kind |-> "ok", hit |-> TRUE, requests |-> 0, value |-> cache.value]
    /\ UNCHANGED <<pc, start, length, allUsers, total, dataset, cache, now, stored>>
    /\ UNCHANGED <<pkgVars, convVars, rlVars, extVars>>

\* GetAllUsers misses the cache and sets up the first page window
CallMiss ==
    /\ pc = "idle"
    /\ calls < MaxCalls
    /\ ~GetAllUsersHit(GetCache(cache, now))
    /\ calls' = calls + 1
    /\ calledAt' = now
    /\ reqLog' = <<>>
    /\ reqParity' = 0
    /\ failed' = FALSE
    /\ setsInRun' = 0
    /\ start' = 0
    /\ length' = PageSize
    /\ allUsers' = EmptyUsers
    /\ \E t \in Totals : total' = t
    /\ pc' = "loop"
    /\ twin' = [pc |-> "loop", start |-> 0, length |-> PageSize]
    /\ received' = NoReceived
    /\ UNCHANGED <<dataset, cache, now, ret, stored>>
    /\ UNCHANGED <<pkgVars, convVars, rlVars, cacheHist, provider, peer, google>>

\* one iteration of the loop whose page call succeeds
Page ==
    /\ pc = "loop"
    /\ LET t == Reported(provider, total, Len(reqLog))
       IN LET resp == RespondAs(provider, t, start, length)
              nxt == LoopStep(start, length, resp)
          IN  /\ total' = t
              /\ reqLog' = Logged(reqLog, [start |-> start, length |-> length])
              /\ reqParity' = 1 - reqParity
              /\ start' = nxt.start
              /\ length' = nxt.length
              /\ pc' = nxt.pc
              /\ allUsers' = IF nxt.pc = "convert"
                             THEN [allUsers EXCEPT !.recordsTotal = resp.recordsTotal]
                             ELSE [allUsers EXCEPT !.data = Aggregate(@, resp.data)]
              /\ received' = [all |-> received.all \o resp.data, last |-> resp.data]
              /\ twin' = IF twin.pc = "loop"
                         THEN LoopStep(twin.start, twin.length,
                                       Respond(t, twin.start, twin.length))
                         ELSE twin
    /\ UNCHANGED <<dataset, cache, now, calls, calledAt, ret, stored,
                   failed, setsInRun>>
    /\ UNCHANGED <<pkgVars, convVars, rlVars, cacheHist, provider, peer, google>>

\* one iteration of the loop whose page call returns an error
PageError ==
    /\ pc = "loop"
    /\ reqLog' = Logged(reqLog, [start |-> start, length |-> length])
    /\ reqParity' = 1 - reqParity
    /\ failed' = TRUE
    /\ pc' = ErrorOutcome
    /\ twin' = IF twin.pc = "loop" THEN [twin EXCEPT !.pc = ErrorOutcome] ELSE twin
    /\ UNCHANGED <<start, length, allUsers, total, dataset, cache, now, calls,
                   calledAt, ret, stored, setsInRun>>
    /\ UNCHANGED <<pkgVars, convVars, rlVars, cacheHist, provider, received, peer, google>>

\* after the loop: convertUserBytes(&allUsers, false), SetCache, return
Finish ==
    /\ pc = "convert"
    /\ LET kb == Kilobyte(FALSE)
           mb == Megabyte(kb)
           gb == Gigabyte(mb, kb)
           tb == Terabyte(gb, kb)
           conv == [allUsers EXCEPT !.data = ConvertAll(@, dataset, kb, mb, gb, tb)]
       IN  /\ megabyte' = mb
           /\ gigabyte' = gb
           /\ terabyte' = tb
           /\ IF Panics(allUsers.data, dataset)
              THEN /\ pc' = "panic"
                   /\ UNCHANGED <<allUsers, cache, ret, stored, setsInRun>>
              ELSE /\ pc' = "idle"
                   /\ allUsers' = conv
                   /\ cache' = SetCache(conv, TTLHours, now)
                   /\ setsInRun' = setsInRun + 1
                   /\ ret' = [kind |-> "ok", hit |-> FALSE,
                              requests |-> Len(reqLog), value |-> conv]
                   /\ stored' = [kind |-> "ok", call |-> calls, at |-> now,
                                 value |-> conv]
    /\ UNCHANGED <<start, length, total, dataset, reqLog, reqParity, now, calls,
                   calledAt, failed>>
    /\ UNCHANGED <<convVars, rlVars, extVars>>

\* an hour passes
Tick ==
    /\ now < MaxTime
    /\ now' = now + 1
    /\ UNCHANGED <<pc, start, length, allUsers, total, dataset, reqLog, reqParity,
                   cache, calls, calledAt, ret, stored, failed, setsInRun>>
    /\ UNCHANGED <<pkgVars, convVars, rlVars, extVars>>

Next == CallHit \/ CallMiss \/ Page \/ PageError \/ Finish \/ Tick

Spec == Init /\ [][Next]_vars

\* the same driver against every kind of provider
OpenInit ==
    /\ PagInit /\ ConvIdle /\ RLIdle /\ CacheIdle /\ PeerIdle /\ GoogleIdle
    /\ provider \in Providers
    /\ twin = NoTwin
    /\ received = NoReceived

OpenSpec == OpenInit /\ [][Next]_vars

\* the loop runs in the calling goroutine, which is scheduled: an iteration
\* whose page call succeeds is eventually taken
FairSpec == Spec /\ WF_vars(Page)

----------------------------------------------------------------------------
(* convertUserBytes as a run of goroutines *)

S_2bytes == <<"2">> \o SP \o U_bytes
S_2MB == <<"2">> \o SP \o U_MB
S_2GB == <<"2">> \o SP \o U_GB
S_2TB == <<"2">> \o SP \o U_TB
S_1p5KB == <<"1", ".", "5">> \o SP \o U_KB
S_1p5TB == <<"1", ".", "5">> \o SP \o U_TB
S_1PB == <<"1">> \o SP \o <<"P", "B">>

\* "<number> <unit>" strings with the number and the power of the base
\* (number = m / 10^d)
WellFormed ==
    { [s |-> S_512bytes, m |-> 512, d |-> 0, k |-> 0],
      [s |-> S_2bytes,   m |-> 2,   d |-> 0, k |-> 0],
      [s |-> S_2KB,      m |-> 2,   d |-> 0, k |-> 1],
      [s |-> S_1p5KB,    m |-> 15,  d |-> 1, k |-> 1],
      [s |-> S_1MB,      m |-> 1,   d |-> 0, k |-> 2],
      [s |-> S_2MB,      m |-> 2,   d |-> 0, k |-> 2],
      [s |-> S_1p5GB,    m |-> 15,  d |-> 1, k |-> 3],
      [s |-> S_2GB,      m |-> 2,   d |-> 0, k |-> 3],
      [s |-> S_2TB,      m |-> 2,   d |-> 0, k |-> 4],
      [s |-> S_1p5TB,    m |-> 15,  d |-> 1, k |-> 4] }

\* strings convertUserBytes may be handed
InputStrings == {w.s : w \in WellFormed} \cup {S_NA, S_xKB, S_1PB}

Batches == UNION {[1..n -> InputStrings] : n \in 1..MaxBatch}

ConvInit ==
    /\ cpc = "idle"
    /\ \E b \in Batches :
          users = [i \in 1..Len(b) |-> [usedBytes |-> b[i], usedBytesFloat |-> FloatZero]]
    /\ useBinary = FALSE
    /\ kilobyte = FloatZero
    /\ task = <<>>
    /\ wg = 0
    /\ printed = {}
    /\ convCalls = 0
    /\ megabyte = FloatZero
    /\ gigabyte = FloatZero
    /\ terabyte = FloatZero

\* convertUserBytes(users, b) up to wg.Wait(): the multipliers are set and
\* one goroutine per record is started
ConvCall ==
    /\ cpc \in {"idle", "returned", "stored"}
    /\ convCalls < MaxConvCalls
    /\ \E b \in BOOLEAN :
          LET kb == Kilobyte(b)
              mb == Megabyte(kb)
              gb == Gigabyte(mb, kb)
          IN  /\ useBinary' = b
              /\ kilobyte' = kb
              /\ megabyte' = mb
              /\ gigabyte' = gb
              /\ terabyte' = Terabyte(gb, kb)
    /\ convCalls' = convCalls + 1
    /\ task' = [i \in 1..Len(users) |-> "ready"]
    /\ wg' = Len(users)
    /\ printed' = {}
    /\ cpc' = "waiting"
    /\ UNCHANGED <<users, pagVars, rlVars, extVars>>

\* the goroutine of record i runs to its end
ConvTask(i) ==
    /\ cpc \in {"waiting", "returned", "stored"}
    /\ task[i] = "ready"
    /\ LET r == ConvertTask(users[i].usedBytes, kilobyte, megabyte, gigabyte, terabyte)
       IN  /\ r.outcome # "panic"
           /\ users' = IF r.assigned
                       THEN [users EXCEPT ![i].usedBytesFloat = r.val]
                       ELSE users
           /\ printed' = printed \cup {[rec |-> i, line |-> r.outcome]}
    /\ task' = [task EXCEPT ![i] = "done"]
    /\ wg' = wg - 1
    /\ UNCHANGED <<cpc, useBinary, kilobyte, convCalls, pagVars, pkgVars, rlVars, extVars>>

\* the goroutine of record i panics on the slice expression; its deferred
\* wg.Done() runs while the panic unwinds
ConvPanic(i) ==
    /\ cpc \in {"waiting", "returned", "stored"}
    /\ task[i] = "ready"
    /\ ConvertTask(users[i].usedBytes, kilobyte, megabyte, gigabyte, terabyte).outcome = "panic"
    /\ task' = [task EXCEPT ![i] = "panicking"]
    /\ wg' = wg - 1
    /\ UNCHANGED <<cpc, users, useBinary, kilobyte, printed, convCalls,
                   pagVars, pkgVars, rlVars, extVars>>

\* the unrecovered panic of a goroutine ends the process
ConvCrash ==
    /\ cpc \in {"waiting", "returned", "stored"}
    /\ \E i \in 1..Len(task) : task[i] = "panicking"
    /\ cpc' = "crashed"
    /\ UNCHANGED <<users, useBinary, kilobyte, task, wg, printed, convCalls,
                   pagVars, pkgVars, rlVars, extVars>>

WaitReturns_NoBarrier(w) == TRUE
\* wg.Wait() returns once the counter is zero
WaitReturns(w) == w = 0

\* wg.Wait() returns and convertUserBytes returns to its caller
ConvWait ==
    /\ cpc = "waiting"
    /\ WaitReturns(wg)
    /\ cpc' = "returned"
    /\ UNCHANGED <<users, useBinary, kilobyte, task, wg, printed, convCalls,
                   pagVars, pkgVars, rlVars, extVars>>

\* the caller, GetAllUsers, stores the aggregate it handed to
\* convertUserBytes: c.SetCache(url, allUsers, 3*time.Hour)
ConvStore ==
    /\ cpc = "returned"
    /\ cache' = SetCache([recordsTotal |-> Len(users), data |-> users], TTLHours, now)
    /\ cpc' = "stored"
    /\ UNCHANGED <<pc, start, length, allUsers, total, dataset, reqLog, reqParity,
                   now, calls, calledAt, ret, stored, failed, setsInRun>>
    /\ UNCHANGED <<users, useBinary, kilobyte, task, wg, printed, convCalls,
                   pkgVars, rlVars, extVars>>

ConvNext ==
    \/ ConvCall
    \/ \E i \in 1..MaxBatch : i <= Len(users) /\ ConvTask(i)
    \/ \E i \in 1..MaxBatch : i <= Len(users) /\ ConvPanic(i)
    \/ ConvCrash
    \/ ConvWait
    \/ ConvStore

ConvStart ==
    ConvInit /\ PagIdleInit /\ RLIdle /\ CacheIdle /\ ProviderIdle /\ PeerIdle /\ GoogleIdle

ConvSpec == ConvStart /\ [][ConvNext]_vars

----------------------------------------------------------------------------
(* a second convertUserBytes call that overlaps the first *)

\* another goroutine enters convertUserBytes(_, b) and sets its kilobyte
PeerCall ==
    /\ peer.pc = "idle"
    /\ cpc = "waiting"
    /\ \E b \in BOOLEAN :
          peer' = [pc |-> "kilobyte", useBinary |-> b, kilobyte |-> Kilobyte(b)]
    /\ UNCHANGED <<pagVars, pkgVars, convVars, rlVars, cacheHist, provider, twin,
                   received, google>>

\* megabyte = kilobyte * kilobyte, in the second call
PeerMega ==
    /\ peer.pc = "kilobyte"
    /\ megabyte' = Megabyte(peer.kilobyte)
    /\ peer' = [peer EXCEPT !.pc = "megabyte"]
    /\ UNCHANGED <<gigabyte, terabyte, pagVars, convVars, rlVars, cacheHist,
                   provider, twin, received, google>>

\* gigabyte = megabyte * kilobyte, in the second call
PeerGiga ==
    /\ peer.pc = "megabyte"
    /\ gigabyte' = Gigabyte(megabyte, peer.kilobyte)
    /\ peer' = [peer EXCEPT !.pc = "gigabyte"]
    /\ UNCHANGED <<megabyte, terabyte, pagVars, convVars, rlVars, cacheHist,
                   provider, twin, received, google>>

\* terabyte = gigabyte * kilobyte, in the second call
PeerTera ==
    /\ peer.pc = "gigabyte"
    /\ terabyte' = Terabyte(gigabyte, peer.kilobyte)
    /\ peer' = [peer EXCEPT !.pc = "terabyte"]
    /\ UNCHANGED <<megabyte, gigabyte, pagVars, convVars, rlVars, cacheHist,
                   provider, twin, received, google>>

RaceNext == ConvNext \/ PeerCall \/ PeerMega \/ PeerGiga \/ PeerTera

RaceSpec == ConvStart /\ [][RaceNext]_vars

----------------------------------------------------------------------------
(* the rate limiter the clients are constructed with (ratelimit package) *)

Callers == 1..NumCallers

CanAcquire_OffByOne(rem) == rem >= 0
\* a token is available
CanAcquire(rem) == rem > 0

\* acquire() finds a token and reserves it
RLAcquire(c) ==
    /\ caller[c] \in {"idle", "blocked"}
    /\ CanAcquire(remaining)
    /\ remaining' = remaining - 1
    /\ caller' = [caller EXCEPT ![c] = "granted"]
    /\ grants' = IF undisturbed THEN grants + 1 ELSE grants
    /\ UNCHANGED <<undisturbed, pagVars, pkgVars, convVars, extVars>>

\* acquire() finds no token and blocks its caller
RLBlock(c) ==
    /\ caller[c] = "idle"
    /\ ~CanAcquire(remaining)
    /\ caller' = [caller EXCEPT ![c] = "blocked"]
    /\ UNCHANGED <<remaining, grants, undisturbed, pagVars, pkgVars, convVars, extVars>>

\* release() returns the slot of a finished request
RLRelease(c) ==
    /\ caller[c] = "granted"
    /\ caller' = [caller EXCEPT ![c] = "idle"]
    /\ remaining' = Min(remaining + 1, Capacity)
    /\ undisturbed' = FALSE
    /\ UNCHANGED <<grants, pagVars, pkgVars, convVars, extVars>>

\* the refill interval elapses
RLRefill ==
    /\ remaining' = Capacity
    /\ undisturbed' = FALSE
    /\ UNCHANGED <<caller, grants, pagVars, pkgVars, convVars, extVars>>

\* reset-aware mode: the provider communicates the quota that remains
RLSignal ==
    /\ \E q \in 0..Capacity : remaining' = q
    /\ undisturbed' = FALSE
    /\ UNCHANGED <<caller, grants, pagVars, pkgVars, convVars, extVars>>

RLNext ==
    \/ \E c \in Callers : RLAcquire(c)
    \/ \E c \in Callers : RLBlock(c)
    \/ \E c \in Callers : RLRelease(c)
    \/ RLRefill
    \/ RLSignal

RLStart ==
    /\ RLIdle /\ PagIdleInit /\ ConvIdle /\ PkgIdle
    /\ CacheIdle /\ ProviderIdle /\ PeerIdle /\ GoogleIdle

RLSpec == RLStart /\ [][RLNext]_vars

----------------------------------------------------------------------------
(* the response cache on its own: set with any time-to-live, get, time *)

Payloads == {[recordsTotal |-> n, data |-> <<>>] : n \in {0, 1}}

\* set(key, value, ttl) overwrites the entry
CacheSet ==
    /\ \E v \in Payloads, ttl \in 0..MaxTtl :
          /\ cache' = SetCache(v, ttl, now)
          /\ cacheHist' = [cacheHist EXCEPT !.setAt = now, !.ttl = ttl]
    /\ UNCHANGED <<pc, start, length, allUsers, total, dataset, reqLog, reqParity,
                   now, calls, calledAt, ret, stored, failed, setsInRun>>
    /\ UNCHANGED <<pkgVars, convVars, rlVars, provider, twin, received, peer, google>>

\* get(key)
CacheGet ==
    /\ cacheHist' = [cacheHist EXCEPT !.got = TRUE,
                                      !.found = GetCache(cache, now),
                                      !.getAt = now,
                                      !.gPresent = cache.present,
                                      !.gSetAt = cacheHist.setAt,
                                      !.gTtl = cacheHist.ttl]
    /\ UNCHANGED <<pagVars, pkgVars, convVars, rlVars, provider, twin, received,
                   peer, google>>

CacheNext == CacheSet \/ CacheGet \/ Tick

CacheStart ==
    /\ PagIdleInit /\ PkgIdle /\ ConvIdle /\ RLIdle
    /\ CacheIdle /\ ProviderIdle /\ PeerIdle /\ GoogleIdle

CacheSpec == CacheStart /\ [][CacheNext]_vars

----------------------------------------------------------------------------
(* the google client: NewClient, GenerateJWT, ImpersonateUser *)

API_KEY == "api_key"
OAUTH_CLIENT == "oauth_client"
SERVICE_ACCOUNT == "service_account"

\* ac.Type as callers may set it
AuthTypes == {API_KEY, OAUTH_CLIENT, SERVICE_ACCOUNT, "other"}

\* what the environment variable, or the ac.Credentials argument, holds:
\* usable credentials, nothing, text that cannot be decoded or read, or
\* readable text that is not a credentials document
CredKinds == {"valid", "missing", "undecodable", "unparsable"}

Subjects == {"super.user", "other.user"}

\* GenerateJWT(data): the client it returns, with the limiter it constructs;
\* JWTConfigFromJSON returns nil with its error and the next line writes
\* through it
GenerateJWT(creds) ==
    IF creds = "valid"
    THEN [panic |-> FALSE, limiter |-> "rl12000"]
    ELSE [panic |-> TRUE, limiter |-> "none"]

RetClient == [client |-> TRUE, err |-> FALSE, panic |-> FALSE]
RetError == [client |-> FALSE, err |-> TRUE, panic |-> FALSE]
RetNilNil == [client |-> FALSE, err |-> FALSE, panic |-> FALSE]
RetPanic == [client |-> FALSE, err |-> FALSE, panic |-> TRUE]

\* what NewClient(ac, verbosity) returns
NewClientResult(cicd, type, creds, scopesOk) ==
    IF ~scopesOk THEN RetError
    ELSE IF cicd
    THEN CASE type = API_KEY ->
                IF creds = "missing" THEN RetError ELSE RetNilNil
           [] type = OAUTH_CLIENT ->
                IF creds = "valid" THEN RetNilNil ELSE RetError
           [] type = SERVICE_ACCOUNT ->
                IF creds \in {"missing", "undecodable"} THEN RetError
                ELSE IF GenerateJWT(creds).panic THEN RetPanic ELSE RetClient
           [] OTHER -> RetNilNil
    ELSE CASE type = API_KEY ->
                IF creds = "missing" THEN RetError ELSE RetNilNil
           [] type = OAUTH_CLIENT -> RetNilNil
           [] type = SERVICE_ACCOUNT ->
                IF GenerateJWT(creds).panic THEN RetPanic ELSE RetClient
           [] OTHER -> RetNilNil

\* the rate limiter ImpersonateUser hands to requests.NewClient
ImpersonateLimiter == "nil"

GoogleInit ==
    \E cicd \in BOOLEAN, type \in AuthTypes, creds \in CredKinds,
       scopesOk \in BOOLEAN :
        google = [pc |-> "idle", cicd |-> cicd, type |-> type, creds |-> creds,
                  scopesOk |-> scopesOk, client |-> FALSE, err |-> FALSE,
                  jwt |-> "unset", subject |-> "super.user",
                  limiter |-> "none", built |-> "none",
                  impersonated |-> FALSE, reqs |-> 0, acquired |-> 0]

\* google.NewClient(ac, verbosity)
GNewClient ==
    /\ google.pc = "idle"
    /\ LET r == NewClientResult(google.cicd, google.type, google.creds,
                                google.scopesOk)
       IN  google' = [google EXCEPT
                        !.pc = IF r.panic THEN "panic" ELSE "constructed",
                        !.client = r.client,
                        !.err = r.err,
                        !.limiter = IF r.client THEN GenerateJWT(google.creds).limiter
                                    ELSE "none",
                        !.built = IF r.client THEN GenerateJWT(google.creds).limiter
                                  ELSE "none"]
    /\ UNCHANGED <<pagVars, pkgVars, convVars, rlVars, cacheHist, provider, twin,
                   received, peer>>

\* the owner of the client assigns the exported field c.JWT
GSetJWT ==
    /\ google.pc = "constructed"
    /\ google.client
    /\ google.jwt = "unset"
    /\ google' = [google EXCEPT !.jwt = "set"]
    /\ UNCHANGED <<pagVars, pkgVars, convVars, rlVars, cacheHist, provider, twin,
                   received, peer>>

\* c.ImpersonateUser(email), the token being issued
GImpersonate ==
    /\ google.pc = "constructed"
    /\ google.client
    /\ google.jwt = "set"
    /\ \E email \in Subjects :
          google' = [google EXCEPT !.subject = email,
                                   !.limiter = ImpersonateLimiter,
                                   !.impersonated = TRUE]
    /\ UNCHANGED <<pagVars, pkgVars, convVars, rlVars, cacheHist, provider, twin,
                   received, peer>>

\* c.ImpersonateUser(email), the token source failing: the error is returned
\* and c.HTTP stays
GImpersonateFails ==
    /\ google.pc = "constructed"
    /\ google.client
    /\ google.jwt = "set"
    /\ \E email \in Subjects : google' = [google EXCEPT !.subject = email]
    /\ UNCHANGED <<pagVars, pkgVars, convVars, rlVars, cacheHist, provider, twin,
                   received, peer>>

\* a request through c.HTTP: acquire() of its rate limiter, if it has one,
\* then the call
GRequest ==
    /\ google.pc = "constructed"
    /\ google.client
    /\ google.reqs < MaxRequests
    /\ google' = [google EXCEPT
                    !.reqs = @ + 1,
                    !.acquired = IF google.limiter = "nil" THEN @ ELSE @ + 1]
    /\ UNCHANGED <<pagVars, pkgVars, convVars, rlVars, cacheHist, provider, twin,
                   received, peer>>

GoogleNext == GNewClient \/ GSetJWT \/ GImpersonate \/ GImpersonateFails \/ GRequest

GoogleStart ==
    /\ GoogleInit
    /\ PagIdleInit /\ PkgIdle /\ ConvIdle /\ RLIdle
    /\ CacheIdle /\ ProviderIdle /\ PeerIdle

GoogleSpec == GoogleStart /\ [][GoogleNext]_vars

----------------------------------------------------------------------------
(* properties of the pagination driver *)

\* a GetAllUsers call that ran the loop has returned its aggregate
Finished == pc = "idle" /\ ret.kind = "ok" /\ ~ret.hit

\* the ids of the records of an aggregate, in order
Ids(data) == [i \in 1..Len(data) |-> data[i].id]

\* the offsets 0 .. n-1 in order
Upto(n) == [i \in 1..n |-> i - 1]

\* C1: against a provider with a stable total of 180 a finished run has
\* issued exactly the three page requests (0,75), (75,75), (150,30) and
\* its aggregate holds the 180 records in arrival order.
C1_ExhaustionRun ==
    (Finished /\ total = 180) =>
        /\ reqLog = << [start |-> 0, length |-> 75],
                       [start |-> 75, length |-> 75],
                       [start |-> 150, length |-> 30] >>
        /\ Ids(ret.value.data) = Upto(180)

\* C2: when the provider reports a total of 0 the run issues one page
\* request only, leaves the loop after it, and returns an empty aggregate.
C2_ZeroTotalOneRequest ==
    (total = 0 /\ ~failed) =>
        /\ Len(reqLog) <= 1
        /\ (Len(reqLog) = 1 => pc # "loop")
        /\ (Finished => ret.value.data = <<>>)

\* C3: a run whose page calls all succeed leaves the loop after finitely
\* many page requests, for every total the provider reports.
C3_RunTerminates == (pc = "loop") ~> (pc # "loop")

\* C4: the aggregate a run returns holds each of the records 0 .. T-1 of
\* the provider exactly once, in offset order, so that its record count
\* equals the recordsTotal it reports.
C4_AggregateExact ==
    Finished =>
        /\ Ids(ret.value.data) = Upto(total)
        /\ Len(ret.value.data) = ret.value.recordsTotal

\* C5: once a page call has failed, GetAllUsers has returned to its caller
\* with the failure as its error result.
C5_ErrorReturned == failed => (pc = "idle" /\ ret.kind = "error")

\* every record of the provider occurs in the aggregate
Covers(agg) ==
    \A id \in 0..(agg.recordsTotal - 1) :
        \E i \in 1..Len(agg.data) : agg.data[i].id = id

\* C6: a run in which a page call failed performs no cache set, a cache
\* set happens only once the loop reached its stop condition, and the
\* cache never holds an aggregate that lacks records of the provider.
C6_NoPartialCached ==
    /\ failed => setsInRun = 0
    /\ setsInRun > 0 => ~Continues(start, total)
    /\ cache.present => Covers(cache.value)

\* a page call failed after records had been aggregated, nothing was cached
C6_Witness ==
    /\ failed
    /\ Len(allUsers.data) > 0
    /\ setsInRun = 0
    /\ pc = ErrorOutcome

\* C7: a call that starts after an aggregate was stored and before the
\* three hours of its entry are over issues no page request and returns
\* the very result the storing call returned.
C7_SecondCallCached ==
    (stored.kind = "ok" /\ stored.call < calls /\ calledAt < stored.at + TTLHours) =>
        /\ pc = "idle"
        /\ reqLog = <<>>
        /\ ret.kind = "ok" /\ ret.hit
        /\ ret.requests = 0
        /\ ret.value = stored.value

\* the second call was served a non-empty aggregate from the cache
C7_Witness ==
    /\ calls = 2
    /\ ret.hit
    /\ stored.call = 1
    /\ calledAt > stored.at
    /\ Len(ret.value.data) = 180

----------------------------------------------------------------------------
(* properties of the unit converter *)

\* the integer a value denotes (exponents not negative)
ToInt(x) == x.m * Pow(2, x.e2) * Pow(5, x.e5)

\* number * base^k for a well-formed string
Expected(w, binary) ==
    IF binary THEN Flt(w.m, 10 * w.k - w.d, 0 - w.d)
    ELSE Flt(w.m, 3 * w.k - w.d, 3 * w.k - w.d)

\* C8: the goroutine of a record whose string has no space ("N/A") leaves
\* the derived value unset and prints an error, and the process goes on:
\* the call does not abort.
C8_UnparseableIsolated ==
    /\ cpc # "crashed"
    /\ \A i \in 1..Len(task) :
          (Index(users[i].usedBytes, SP) < 0 /\ task[i] # "ready") =>
              /\ task[i] = "done"
              /\ [rec |-> i, line |-> "error"] \in printed
              /\ users[i].usedBytesFloat = FloatZero

\* C9: a converted record whose string is "<number> <unit>" carries
\* number * base^k, k = 0..4 for bytes, KB, MB, GB, TB, with base 1024
\* when useBinary and 1000 otherwise; "512 bytes" is 512, "2 KB" decimal
\* 2000, "1 MB" binary 1048576, "1.5 GB" decimal 1500000000.
C9_UnitTable ==
    \A i \in 1..Len(task) :
        task[i] = "done" =>
            /\ \A w \in WellFormed :
                  users[i].usedBytes = w.s =>
                      users[i].usedBytesFloat = Expected(w, useBinary)
            /\ users[i].usedBytes = S_512bytes =>
                  ToInt(users[i].usedBytesFloat) = 512
            /\ (users[i].usedBytes = S_2KB /\ ~useBinary) =>
                  ToInt(users[i].usedBytesFloat) = 2000
            /\ (users[i].usedBytes = S_1MB /\ useBinary) =>
                  ToInt(users[i].usedBytesFloat) = 1048576
            /\ (users[i].usedBytes = S_1p5GB /\ ~useBinary) =>
                  ToInt(users[i].usedBytesFloat) = 1500000000

\* a second call, with the binary base, has converted "1 MB" next to "2 TB"
C9_Witness ==
    /\ convCalls = 2
    /\ useBinary
    /\ cpc = "returned"
    /\ Len(users) = 2
    /\ users[1].usedBytes = S_1MB
    /\ ToInt(users[1].usedBytesFloat) = 1048576
    /\ users[2].usedBytes = S_2TB
    /\ users[2].usedBytesFloat = Flt(1, 41, 0)

----------------------------------------------------------------------------
(* properties of the rate limiter *)

Granted == {c \in Callers : caller[c] = "granted"}
Blocked == {c \in Callers : caller[c] = "blocked"}

\* C10: remaining stays within 0 .. capacity; while no refill, release or
\* signal occurred, the callers whose acquire() returned are as many as
\* the tokens taken, at most capacity, and each grant took one token.
C10_Bounded ==
    /\ 0 <= remaining /\ remaining <= Capacity
    /\ undisturbed =>
          /\ Cardinality(Granted) = grants
          /\ grants <= Capacity
          /\ remaining = Capacity - grants

\* all tokens are taken and a further caller is blocked
C10_Witness ==
    /\ undisturbed
    /\ grants = Capacity
    /\ remaining = 0
    /\ Blocked # {}

----------------------------------------------------------------------------
(* properties of the response cache *)

\* C11: a get finds an entry only while less than its time-to-live has
\* elapsed since it was set; an entry set with a time-to-live of 0 is not
\* found by any get, the very next one included.
C11_NoExpiredEntry ==
    (cacheHist.got /\ cacheHist.found) =>
        /\ cacheHist.gPresent
        /\ cacheHist.getAt - cacheHist.gSetAt < cacheHist.gTtl

\* an entry set with a time-to-live of 0 was looked up at once and not found
C11_Witness ==
    /\ cacheHist.got
    /\ cacheHist.gPresent
    /\ cacheHist.gTtl = 0
    /\ cacheHist.getAt = cacheHist.gSetAt
    /\ ~cacheHist.found

----------------------------------------------------------------------------
(* properties of the page window and of the aggregate, for every provider *)

\* C12: while a run is in its loop the start offset never decreases from
\* one page request to the next.
C12_StartMonotone == [][pc = "loop" => start' >= start]_vars

\* C13: every page request of a run carries start >= 0 and a length
\* between 1 and the page size 75.
C13_WindowInRange ==
    \A i \in 1..Len(reqLog) :
        /\ reqLog[i].start >= 0
        /\ 1 <= reqLog[i].length
        /\ reqLog[i].length <= PageSize

\* C14: the aggregate a run returns is the concatenation, in request order,
\* of the records of every page response the run received, those of the
\* last response included.
C14_AllResponsesAggregated ==
    Finished => Ids(ret.value.data) = Ids(received.all)

\* C14, as the code has it: the aggregate is the concatenation, in request
\* order, of the records of every page response but the one on which the
\* loop stops, whose records are discarded.
C14_AllButStoppingResponse ==
    /\ pc = "loop" => Ids(allUsers.data) = Ids(received.all)
    /\ Finished => Ids(received.all) = Ids(ret.value.data) \o Ids(received.last)

\* a run returned after a stopping response that carried records
C14_Witness ==
    /\ Finished
    /\ received.last # <<>>
    /\ Len(ret.value.data) = 180

\* C15: the page requests and the decision to stop are those of a run
\* against a provider that reports the same totals and serves exactly the
\* requested window, whatever number of records the responses carry.
C15_RequestsFollowTotals ==
    pc \in {"loop", "convert", "outside", "exit"} =>
        /\ twin.pc = pc
        /\ twin.start = start
        /\ twin.length = length

\* a run left its loop having received fewer records than the provider has
C15_Witness ==
    /\ provider = "capped"
    /\ pc = "convert"
    /\ twin.pc = "convert"
    /\ total = 180
    /\ Len(reqLog) = 4
    /\ Len(received.all) < 180

----------------------------------------------------------------------------
(* properties of the goroutines of the unit converter *)

\* C16: convertUserBytes has returned only when none of the goroutines it
\* started is still to run, and the aggregate its caller then stores in
\* the cache is the aggregate with all its derived values.
C16_BarrierBeforeStore ==
    /\ cpc \in {"returned", "stored"} =>
          \A i \in 1..Len(task) : task[i] # "ready"
    /\ cpc = "stored" => cache.value.data = users

\* an aggregate of two converted records was stored
C16_Witness ==
    /\ cpc = "stored"
    /\ Len(users) = 2
    /\ \A i \in 1..2 : task[i] = "done" /\ users[i].usedBytesFloat # FloatZero
    /\ cache.present
    /\ cache.value.data = users

\* C17: a record whose goroutine has run either carries a derived value
\* or has had an error printed for it.
C17_ValueOrError ==
    \A i \in 1..Len(task) :
        task[i] = "done" =>
            \/ [rec |-> i, line |-> "error"] \in printed
            \/ users[i].usedBytesFloat # FloatZero

\* C18: the multipliers the goroutines of a call read are those of the
\* call's own base, whatever other call runs at the same time, and every
\* converted record carries number * base^k for its own call's base.
C18_OwnMultipliers ==
    /\ cpc = "waiting" =>
          /\ megabyte = Mul(kilobyte, kilobyte)
          /\ gigabyte = Mul(Mul(kilobyte, kilobyte), kilobyte)
          /\ terabyte = Mul(Mul(Mul(kilobyte, kilobyte), kilobyte), kilobyte)
    /\ \A i \in 1..Len(task) :
          task[i] = "done" =>
              \A w \in WellFormed :
                  users[i].usedBytes = w.s =>
                      users[i].usedBytesFloat = Expected(w, useBinary)

----------------------------------------------------------------------------
(* properties of the google client *)

\* C19: a constructed client holds, for its whole life, the rate limiter
\* it was constructed with, ImpersonateUser included, and every request
\* it sends is preceded by an acquire.
C19_LimiterStays ==
    (google.pc = "constructed" /\ google.client) =>
        /\ google.limiter = google.built
        /\ google.acquired = google.reqs

\* C20: with valid credentials, whatever the CICD flag and whichever of
\* api_key, oauth_client and service_account the Type, NewClient does not
\* return a nil client together with a nil error.
C20_ClientOrError ==
    (/\ google.pc = "constructed"
     /\ google.creds = "valid"
     /\ google.scopesOk
     /\ google.type \in {API_KEY, OAUTH_CLIENT, SERVICE_ACCOUNT}) =>
        (google.client \/ google.err)

====
